---- MODULE Spec2Model ----
(***************************************************************************)
(* Model of discord-mediaplayer-rpc (src/main.rs).                         *)
(*                                                                         *)
(* The program runs four tasks on one tokio runtime:                       *)
(*   - the D-Bus I/O driver (the spawned `resource` task), which feeds     *)
(*     PropertiesChanged notifications into the match stream;              *)
(*   - the listener, the for_each handler of stream_fut, awaited by main;  *)
(*   - the presence actor (_discord_client), which drains the mpsc channel *)
(*     and calls set_activity / clear_activity;                            *)
(*   - in console mode only, the task that waits for a line on stdin,      *)
(*     removes the match and drops the Tripwire trigger.                   *)
(* Each action below is one of their steps between two await points.       *)
(* Option and Result values are sequences of length at most one.           *)
(***************************************************************************)
EXTENDS Integers, Sequences, FiniteSets, TLC

\* ---------------------------------------------------------------- bounds
MaxNotifs == 2        \* notifications the bus delivers in one run
MaxArtists == 2       \* longest xesam:artist list in a reply
BurstExtra == 2       \* notifications of a burst beyond the channel capacity

\* ------------------------------------------------------- program constants
ChannelCap == 25      \* tokio::sync::mpsc::channel(25)

\* ------------------------------------------------------ Option and Result
None == <<>>
Some(x) == <<x>>
IsSome(o) == Len(o) = 1
Unwrap(o) == o[1]
Err == <<>>
Ok(x) == <<x>>
IsOk(r) == Len(r) = 1

\* --------------------------------------------------- D-Bus property values
\* A variant carries its D-Bus type: "s" string, "as" list of strings.
VStr(s) == [ty |-> "s", s |-> s, l |-> <<>>]
VList(l) == [ty |-> "as", s |-> "", l |-> l]

\* arg::prop_cast::<String>: the value when the key is present and a string
prop_cast_string(o) ==
    IF IsSome(o) /\ Unwrap(o).ty = "s" THEN Some(Unwrap(o).s) ELSE None

\* arg::prop_cast::<Vec<String>>: the value when present and a string list
prop_cast_vec(o) ==
    IF IsSome(o) /\ Unwrap(o).ty = "as" THEN Some(Unwrap(o).l) ELSE None

unwrap_or_default_string(o) == IF IsSome(o) THEN Unwrap(o) ELSE ""
unwrap_or_default_vec(o) == IF IsSome(o) THEN Unwrap(o) ELSE <<>>

RECURSIVE join(_, _)
join(v, sep) ==
    IF v = <<>> THEN ""
    ELSE IF Len(v) = 1 THEN v[1]
    ELSE v[1] \o sep \o join(Tail(v), sep)

MediaInfo(t, ar, al) == [title |-> t, artist |-> ar, album |-> al]

\* fn parse_metadata(metadata: &PropMap) -> anyhow::Result<MediaInfo>
parse_metadata(metadata) ==
    LET title == prop_cast_string(metadata.title)
        album == prop_cast_string(metadata.album)
        artist == prop_cast_vec(metadata.artist)
    IN  IF title = None /\ album = None /\ artist = None
        THEN Err
        ELSE Ok(MediaInfo(unwrap_or_default_string(title),
                          join(unwrap_or_default_vec(artist), " & "),
                          unwrap_or_default_string(album)))

parse_playback_lenient(playback) ==
    IF playback = None THEN "Closed"
    ELSE IF Unwrap(playback) = "Paused" THEN "Paused"
    ELSE IF Unwrap(playback) \in {"Playing", "playing"} THEN "Playing"
    ELSE IF Unwrap(playback) = "Stopped" THEN "Stopped"
    ELSE "Closed"

\* fn parse_playback(playback: Option<String>) -> PlaybackStatus
\* "Unreachable" stands for the unreachable!() panic.
parse_playback(playback) ==
    IF playback = None THEN "Closed"
    ELSE IF Unwrap(playback) = "Paused" THEN "Paused"
    ELSE IF Unwrap(playback) = "Playing" THEN "Playing"
    ELSE IF Unwrap(playback) = "Stopped" THEN "Stopped"
    ELSE "Unreachable"

\* async fn read_metadata: a failed get is an error, a reply is parsed
read_metadata(reply) ==
    IF IsOk(reply) THEN parse_metadata(Unwrap(reply)) ELSE Err

\* Result::ok(): Ok(v) to Some(v), Err(_) to None
ok(reply) == IF IsOk(reply) THEN Some(Unwrap(reply)) ELSE None

read_playback_status_unwrap(reply) ==
    parse_playback(IF IsOk(reply) THEN Some(Unwrap(reply)) ELSE Some(""))

\* async fn read_playback_status
read_playback_status(reply) == parse_playback(ok(reply))

ActivityFromNoSubline(mi) ==
    [state |-> None,
     details |-> "Playing " \o mi.artist \o " - " \o mi.title]

\* impl From<MediaInfo> for Activity
ActivityFrom(mi) ==
    IF mi.album = ""
    THEN [state |-> None,
          details |-> "Playing " \o mi.artist \o " - " \o mi.title]
    ELSE [state |-> Some("From " \o mi.album),
          details |-> "Playing " \o mi.artist \o " - " \o mi.title]

\* ------------------------------------------------------------------ inputs
Names == {"Alice", "Bob"}
RECURSIVE SeqsUpTo(_, _)
SeqsUpTo(S, n) ==
    IF n = 0 THEN {<<>>}
    ELSE LET shorter == SeqsUpTo(S, n - 1)
         IN  shorter \cup {Append(q, x) : q \in shorter, x \in S}

EmptyBag == [title |-> None, album |-> None, artist |-> None]

\* property bags the player may answer a Metadata get with
ListenerBags ==
    { EmptyBag,
      [title |-> Some(VStr("Song")), album |-> Some(VStr("")),
       artist |-> Some(VList(<<"Alice", "Bob">>))],
      [title |-> Some(VStr("Song")), album |-> Some(VStr("LP")),
       artist |-> None],
      [title |-> None, album |-> None, artist |-> Some(VStr("Alice"))] }

\* replies to proxy.get(PLAYER_INTERFACE, "PlaybackStatus")
StatusStrings == {"Paused", "Playing", "Stopped", "Fish", "playing", ""}
StatusReplies == {Err} \cup {Ok(s) : s \in StatusStrings}

\* replies to proxy.get(PLAYER_INTERFACE, "Metadata")
MetaReplies == {Err} \cup {Ok(b) : b \in ListenerBags}

\* env::args().nth(1)
Args == {None, Some("-d"), Some("-x")}

\* ------------------------------------------------------------------- state
VARIABLES
    arg1,       \* env::args().nth(1)
    stream,     \* notifications delivered to the match stream, not yet taken
    nextId,     \* number of the next notification the bus delivers
    matched,    \* the match callback is installed on the connection
    connLost,   \* the IOResource future has finished (resource task panicked)
    lpc,        \* listener: "idle", "status", "meta", "send"
    cur,        \* the notification in hand: [id, status, md]
    chan,       \* the mpsc channel (tx -> rx), oldest first
    tripwire,   \* the Trigger has been dropped
    cpc,        \* console task: "none", "reading", "removing", "done"
    unsub,      \* result of remove_match: "none", "ok", "failed"
    mainState,  \* main's future: "running", "returned", "panicked"
    exited,     \* the runtime has shut down and the process is gone
    actor,      \* presence actor: "running", "ended", "dropped"
    pushes,     \* calls made on the presence client, in order
    hist,       \* per notification taken: what the listener did with it
    pin,        \* pure-function harness: input
    pout,       \* pure-function harness: output
    ppc         \* pure-function harness: "off", "in", "out"

vars == <<arg1, stream, nextId, matched, connLost, lpc, cur, chan, tripwire,
          cpc, unsub, mainState, exited, actor, pushes, hist, pin, pout, ppc>>

pipeVars == <<arg1, stream, nextId, matched, connLost, lpc, cur, chan,
              tripwire, cpc, unsub, mainState, exited, actor, pushes, hist>>
pureVars == <<pin, pout, ppc>>

NoCur == [id |-> 0, status |-> "Closed", md |-> None]

IsDaemonAlways(a) == FALSE

\* match env::args().nth(1) { Some(arg) if arg == "-d" => daemon, _ => console }
IsDaemon(a) == IsSome(a) /\ Unwrap(a) = "-d"

PipeInit(a) ==
    /\ arg1 = a
    /\ stream = <<>>
    /\ nextId = 1
    /\ matched = TRUE
    /\ connLost = FALSE
    /\ lpc = "idle"
    /\ cur = NoCur
    /\ chan = <<>>
    /\ tripwire = FALSE
    /\ cpc = IF IsDaemon(a) THEN "none" ELSE "reading"
    /\ unsub = "none"
    /\ mainState = "running"
    /\ exited = FALSE
    /\ actor = "running"
    /\ pushes = <<>>
    /\ hist = <<>>

Init ==
    /\ \E a \in Args : PipeInit(a)
    /\ pin = EmptyBag
    /\ pout = Err
    /\ ppc = "off"

\* ------------------------------------------------------ the bus connection
\* The I/O driver reads a PropertiesChanged signal and the match callback
\* puts it on the (unbounded) stream.
NotifyUpTo(n) ==
    /\ ~exited /\ ~connLost /\ matched
    /\ nextId <= n
    /\ stream' = Append(stream, nextId)
    /\ nextId' = nextId + 1
    /\ UNCHANGED <<arg1, matched, connLost, lpc, cur, chan, tripwire, cpc,
                   unsub, mainState, exited, actor, pushes, hist>>
    /\ UNCHANGED pureVars

Notify == NotifyUpTo(MaxNotifs)

\* resource.await returns: the spawned task panics. The panic ends that task
\* only; the runtime and the other tasks go on.
ConnectionLost ==
    /\ ~exited /\ ~connLost
    /\ connLost' = TRUE
    /\ UNCHANGED <<arg1, stream, nextId, matched, lpc, cur, chan, tripwire,
                   cpc, unsub, mainState, exited, actor, pushes, hist>>
    /\ UNCHANGED pureVars

\* ------------------------------------------------------------ the listener
\* take_until_if polls the tripwire first, then the stream; for_each polls
\* for the next item only when the handler of the previous one is finished.
ListenerFreeAlways == TRUE

\* for_each polls the stream only while no handler future is pending
ListenerFree == lpc = "idle"

CanTakeIgnoringTripwire == stream # <<>>

\* take_until_if yields the stream's next item unless the tripwire has fired
CanTake == ~tripwire /\ stream # <<>>

ListenerTake ==
    /\ ~exited /\ mainState = "running" /\ ListenerFree
    /\ CanTake
    /\ cur' = [id |-> Head(stream), status |-> "Closed", md |-> None]
    /\ stream' = Tail(stream)
    /\ lpc' = "status"
    /\ hist' = Append(hist, [id |-> Head(stream), raw |-> None,
                             status |-> "none", metaAsked |-> FALSE,
                             md |-> Err, sent |-> 0, done |-> FALSE])
    /\ UNCHANGED <<arg1, nextId, matched, connLost, chan, tripwire, cpc,
                   unsub, mainState, exited, actor, pushes>>
    /\ UNCHANGED pureVars

\* the entry of hist for the notification in hand
Last == hist[Len(hist)]
SetLast(h) == [hist EXCEPT ![Len(hist)] = h]

\* a get on a lost connection cannot be answered
RepliesNow(all) == IF connLost THEN {Err} ELSE all

NeedsMetadataAlways(status) == TRUE

\* if let PlaybackStatus::Paused | PlaybackStatus::Playing = status
NeedsMetadata(status) == status \in {"Paused", "Playing"}

\* let status = read_playback_status(&proxy).await, then the branch on it
ListenerStatus ==
    /\ ~exited /\ mainState = "running" /\ lpc = "status"
    /\ \E reply \in RepliesNow(StatusReplies) :
         LET status == read_playback_status(reply)
         IN  /\ hist' = SetLast([Last EXCEPT
                        !.raw = ok(reply),
                        !.status = status])
             /\ IF status = "Unreachable"
                THEN /\ mainState' = "panicked"
                     /\ lpc' = "idle"
                     /\ cur' = NoCur
                ELSE /\ mainState' = mainState
                     /\ cur' = [cur EXCEPT !.status = status]
                     /\ lpc' = IF NeedsMetadata(status)
                               THEN "meta" ELSE "send"
    /\ UNCHANGED <<arg1, stream, nextId, matched, connLost, chan, tripwire,
                   cpc, unsub, exited, actor, pushes>>
    /\ UNCHANGED pureVars

\* read_metadata(&proxy).and_then(|mi| tx.send((Some(mi), status))): the send
\* is made only when read_metadata is Ok; an Err skips it and the handler
\* goes on to yield_now.
ListenerMeta ==
    /\ ~exited /\ mainState = "running" /\ lpc = "meta"
    /\ \E reply \in RepliesNow(MetaReplies) :
         LET r == read_metadata(reply)
         IN  IF IsOk(r)
             THEN /\ cur' = [cur EXCEPT !.md = Some(Unwrap(r))]
                  /\ lpc' = "send"
                  /\ hist' = SetLast([Last EXCEPT !.metaAsked = TRUE,
                                                  !.md = r])
             ELSE /\ cur' = NoCur
                  /\ lpc' = "idle"
                  /\ hist' = SetLast([Last EXCEPT !.metaAsked = TRUE,
                                                  !.done = TRUE])
    /\ UNCHANGED <<arg1, stream, nextId, matched, connLost, chan, tripwire,
                   cpc, unsub, mainState, exited, actor, pushes>>
    /\ UNCHANGED pureVars

EnqueueFront(q, ev) == <<ev>> \o q

\* tokio mpsc: a sent value goes to the back of the queue
Enqueue(q, ev) == Append(q, ev)

HasRoomAlways(q) == TRUE

\* tokio mpsc::channel(25): send waits for a permit while 25 are queued
HasRoom(q) == Len(q) < ChannelCap

\* tx.send(..).await completes when the channel has room; then yield_now
ListenerSend ==
    /\ ~exited /\ mainState = "running" /\ lpc = "send"
    /\ HasRoom(chan)
    /\ chan' = Enqueue(chan, cur)
    /\ hist' = SetLast([Last EXCEPT !.sent = @ + 1, !.done = TRUE])
    /\ cur' = NoCur
    /\ lpc' = "idle"
    /\ UNCHANGED <<arg1, stream, nextId, matched, connLost, tripwire, cpc,
                   unsub, mainState, exited, actor, pushes>>
    /\ UNCHANGED pureVars

\* The stream ends: the tripwire has fired, or the match callback (and its
\* sender) is gone and nothing is buffered. stream_fut.await returns and
\* main returns Ok(()), dropping tx.
StreamEnd ==
    /\ ~exited /\ mainState = "running" /\ ListenerFree
    /\ tripwire \/ (~matched /\ stream = <<>>)
    /\ mainState' = "returned"
    /\ UNCHANGED <<arg1, stream, nextId, matched, connLost, lpc, cur, chan,
                   tripwire, cpc, unsub, exited, actor, pushes, hist>>
    /\ UNCHANGED pureVars

\* The console task calls std::io::stdin().read_line inside an async task:
\* its worker thread is blocked, and never yields, until a line arrives.
WorkerBlocked == cpc = "reading"

\* After main's future is finished (returned or unwound) the runtime is
\* dropped: tasks that are not finished are dropped where they wait, and
\* the drop waits for every worker to reach a point where its task yields.
RuntimeShutdown ==
    /\ ~exited /\ mainState # "running"
    /\ ~WorkerBlocked
    /\ exited' = TRUE
    /\ actor' = IF actor = "running" THEN "dropped" ELSE actor
    /\ UNCHANGED <<arg1, stream, nextId, matched, connLost, lpc, cur, chan,
                   tripwire, cpc, unsub, mainState, pushes, hist>>
    /\ UNCHANGED pureVars

\* ------------------------------------------------------ the presence actor
\* match mi_mb { (Some(mi), Playing) => set_activity, _ => clear_activity }
PushForAnyStatus(ev) ==
    IF IsSome(ev.md)
    THEN [ev |-> ev, kind |-> "set",
          activity |-> Some(ActivityFrom(Unwrap(ev.md)))]
    ELSE [ev |-> ev, kind |-> "clear", activity |-> None]

PushFor(ev) ==
    IF IsSome(ev.md) /\ ev.status = "Playing"
    THEN [ev |-> ev, kind |-> "set",
          activity |-> Some(ActivityFrom(Unwrap(ev.md)))]
    ELSE [ev |-> ev, kind |-> "clear", activity |-> None]

\* tokio mpsc: recv takes the oldest value
Dequeue(q) == Head(q)
Rest(q) == Tail(q)

AfterPushStopOnError(pushed) == IF pushed THEN "running" ELSE "ended"

\* what a push result does to the actor: `let _ =` discards it
AfterPush(pushed) == "running"

\* one turn of `while let Some(mi_mb) = rx.recv().await { .. }`
ActorRecv ==
    /\ ~exited /\ actor = "running"
    /\ chan # <<>>
    /\ \E pushed \in BOOLEAN :
         /\ pushes' = Append(pushes, PushFor(Dequeue(chan)) @@ [ok |-> pushed])
         /\ actor' = AfterPush(pushed)
    /\ chan' = Rest(chan)
    /\ UNCHANGED <<arg1, stream, nextId, matched, connLost, lpc, cur,
                   tripwire, cpc, unsub, mainState, exited, hist>>
    /\ UNCHANGED pureVars

SenderKeptAlive == FALSE

\* tx lives in main's future and is dropped when that future is finished
SenderDropped == mainState # "running"

\* rx.recv() yields None: every sender is dropped and the channel is empty
ActorEnd ==
    /\ ~exited /\ actor = "running"
    /\ chan = <<>> /\ SenderDropped
    /\ actor' = "ended"
    /\ UNCHANGED <<arg1, stream, nextId, matched, connLost, lpc, cur, chan,
                   tripwire, cpc, unsub, mainState, exited, pushes, hist>>
    /\ UNCHANGED pureVars

\* -------------------------------------------------------- the console task
\* stdin().read_line returns; remove_match takes the callback off the
\* connection and asks the bus to drop the rule.
ConsoleInput ==
    /\ ~exited /\ cpc = "reading"
    /\ cpc' = "removing"
    /\ matched' = FALSE
    /\ UNCHANGED <<arg1, stream, nextId, connLost, lpc, cur, chan, tripwire,
                   unsub, mainState, exited, actor, pushes, hist>>
    /\ UNCHANGED pureVars

TriggerDroppedOnSuccess(removed) == removed

\* `let _ =` discards remove_match's result: drop(trigger) runs either way
TriggerDropped(removed) == TRUE

\* let _ = conn.remove_match(..).await; drop(trigger);
RemoveMatchDone ==
    /\ ~exited /\ cpc = "removing"
    /\ \E removed \in (IF connLost THEN {FALSE} ELSE BOOLEAN) :
         /\ unsub' = IF removed THEN "ok" ELSE "failed"
         /\ tripwire' = TriggerDropped(removed)
    /\ cpc' = "done"
    /\ UNCHANGED <<arg1, stream, nextId, matched, connLost, lpc, cur, chan,
                   mainState, exited, actor, pushes, hist>>
    /\ UNCHANGED pureVars

Next ==
    \/ Notify
    \/ ConnectionLost
    \/ ListenerTake
    \/ ListenerStatus
    \/ ListenerMeta
    \/ ListenerSend
    \/ StreamEnd
    \/ RuntimeShutdown
    \/ ActorRecv
    \/ ActorEnd
    \/ ConsoleInput
    \/ RemoveMatchDone

Spec == Init /\ [][Next]_vars

\* ------------------------------------------- harness for the pure functions
Strings == {"", "Song"}
ArtistValues ==
    {None, Some(VStr("Alice"))}
        \cup {Some(VList(l)) : l \in SeqsUpTo(Names, MaxArtists)}
Bags ==
    [title : {None} \cup {Some(VStr(t)) : t \in Strings},
     album : {None} \cup {Some(VStr(a)) : a \in {"", "LP"}},
     artist : ArtistValues]

ParseInit ==
    /\ PipeInit(None)
    /\ pin \in Bags
    /\ pout = Err
    /\ ppc = "in"

ParseMetadata ==
    /\ ppc = "in"
    /\ pout' = parse_metadata(pin)
    /\ ppc' = "out"
    /\ UNCHANGED pin
    /\ UNCHANGED pipeVars

ParseNext == ParseMetadata

ParseSpec == ParseInit /\ [][ParseNext]_vars

\* the MediaInfo values handed to Activity::from
MediaInfos ==
    {MediaInfo(t, ar, al) : t \in {"", "Song", "title", "T"},
                            ar \in {"", "Alice", "Alice & Bob", "artist"},
                            al \in {"", "LP", "album", "X"}}

ActivityInit ==
    /\ PipeInit(None)
    /\ pin \in MediaInfos
    /\ pout = Err
    /\ ppc = "mi"

\* let activity: Activity = mi.into()
MapActivity ==
    /\ ppc = "mi"
    /\ pout' = ActivityFrom(pin)
    /\ ppc' = "activity"
    /\ UNCHANGED pin
    /\ UNCHANGED pipeVars

ActivityNext == MapActivity

ActivitySpec == ActivityInit /\ [][ActivityNext]_vars

\* ------------------------------------------------- a burst of notifications
\* Daemon mode, a stopped player and a presence service that answers: more
\* notifications than the channel holds, with the actor free to lag behind.
MaxBurst == ChannelCap + BurstExtra

BurstInit ==
    /\ PipeInit(Some("-d"))
    /\ pin = EmptyBag
    /\ pout = Err
    /\ ppc = "off"

BurstNext ==
    \/ NotifyUpTo(MaxBurst)
    \/ ListenerTake
    \/ ListenerStatus /\ hist'[Len(hist)].raw = Some("Stopped")
    \/ ListenerSend
    \/ ActorRecv /\ pushes'[Len(pushes')].ok

BurstSpec == BurstInit /\ [][BurstNext]_vars

\* ------------------------------------------------------------------ claims
Taken == 1..Len(hist)
Pushed == 1..Len(pushes)
HistOf(id) == CHOOSE h \in {hist[i] : i \in Taken} : h.id = id

\* C1: every notification whose handling has finished has put exactly one
\* event on the channel, whatever its two queries returned.
C1_ExactlyOneEventPerNotification ==
    \A i \in Taken : hist[i].done => hist[i].sent = 1

\* C2: at a shutdown that follows the end of the stream, every event that
\* was put on the channel has been pushed: none is left when the process
\* has exited.
C2_NoEventLostAtShutdown ==
    (exited /\ mainState = "returned") => chan = <<>>

\* C3: pushes reach the presence service in the order the listener received
\* the notifications: the notification numbers of the pushes made, followed
\* by those of the events still queued, are strictly increasing, and the
\* listener takes notifications in the order the bus delivered them.
C3_PushOrderIsNotificationOrder ==
    LET ids == [i \in 1..(Len(pushes) + Len(chan)) |->
                  IF i <= Len(pushes) THEN pushes[i].ev.id
                  ELSE chan[i - Len(pushes)].id]
    IN  /\ \A i, j \in DOMAIN ids : i < j => ids[i] < ids[j]
        /\ \A i \in Taken : hist[i].id = i

C3_Witness ==
    /\ Len(pushes) >= 2
    /\ pushes[1].ev.id = 1
    /\ pushes[2].ev.id = 2

\* C4: once the connection is lost the listener takes up no further
\* notification and the actor makes no further push.
C4_NothingRunsAfterConnectionLoss ==
    [][connLost => (hist' = hist /\ pushes' = pushes)]_vars

RECURSIVE SumSent(_)
SumSent(n) == IF n = 0 THEN 0 ELSE hist[n].sent + SumSent(n - 1)

\* C5: the actor makes exactly one push per event it takes off the channel
\* (pushes made = events sent - events still queued), and a push is "set"
\* exactly when its event carries metadata and has status Playing; every
\* other event is pushed as "clear".
C5_OnePushPerEventSetIffPlaying ==
    /\ Len(pushes) = SumSent(Len(hist)) - Len(chan)
    /\ \A i \in Pushed :
         /\ pushes[i].kind \in {"set", "clear"}
         /\ pushes[i].kind = "set"
              <=> (IsSome(pushes[i].ev.md) /\ pushes[i].ev.status = "Playing")

C5_Witness ==
    /\ \E i \in Pushed : pushes[i].kind = "set"
    /\ \E i \in Pushed :
         /\ IsSome(pushes[i].ev.md)
         /\ pushes[i].ev.status = "Paused"
         /\ pushes[i].kind = "clear"

\* C6: a failed push neither ends the actor nor touches the listener: the
\* step that makes a failing push leaves the actor running and the
\* listener's state as it was, and afterwards the actor still takes the next
\* queued event (it stops only when the channel is closed and empty, or when
\* the runtime shuts down).
C6_FailedPushIsIgnored ==
    /\ []((~exited /\ \E i \in Pushed : ~pushes[i].ok) =>
            /\ chan # <<>> => ENABLED ActorRecv
            /\ actor = "running" \/ (chan = <<>> /\ mainState # "running"))
    /\ [][(Len(pushes') > Len(pushes) /\ ~pushes'[Len(pushes')].ok) =>
            /\ actor' = "running"
            /\ UNCHANGED <<stream, lpc, cur, hist, mainState, tripwire,
                           matched>>]_vars

C6_Witness ==
    \E i, j \in Pushed : i < j /\ ~pushes[i].ok

\* C7: a notification whose status query failed or gave no value is
\* classified Closed; for a Closed or Stopped notification the listener asks
\* for no metadata and emits one event without metadata, and the push made
\* for that event is "clear".
C7_ClosedAndStoppedAreCleared ==
    /\ \A i \in Taken :
         hist[i].status # "none" =>
           /\ hist[i].raw = None => hist[i].status = "Closed"
           /\ hist[i].raw = Some("Stopped") => hist[i].status = "Stopped"
           /\ hist[i].status \in {"Closed", "Stopped"} =>
                /\ ~hist[i].metaAsked
                /\ hist[i].done => hist[i].sent = 1
                /\ ~hist[i].done => (lpc = "send" /\ cur.id = hist[i].id
                                     /\ cur.md = None
                                     /\ cur.status = hist[i].status)
    /\ \A k \in 1..Len(chan) :
         HistOf(chan[k].id).status \in {"Closed", "Stopped"} =>
           /\ chan[k].md = None
           /\ chan[k].status = HistOf(chan[k].id).status
    /\ \A k \in Pushed :
         HistOf(pushes[k].ev.id).status \in {"Closed", "Stopped"} =>
           /\ pushes[k].ev.md = None
           /\ pushes[k].kind = "clear"

C7_Witness ==
    /\ \E k \in Pushed :
         /\ HistOf(pushes[k].ev.id).raw = None
         /\ pushes[k].kind = "clear"
    /\ \E k \in Pushed :
         /\ HistOf(pushes[k].ev.id).raw = Some("Stopped")
         /\ pushes[k].kind = "clear"

\* C8: started with "-d", the console task does not exist: the match is
\* never removed, the trigger is never dropped and the stream never ends, so
\* main never returns; the trigger is dropped only in console mode, by the
\* console task after it has read its line.
C8_DaemonNeverShutsDown ==
    /\ arg1 = Some("-d") =>
         /\ cpc = "none" /\ unsub = "none"
         /\ matched /\ ~tripwire
         /\ mainState # "returned"
    /\ tripwire => (arg1 # Some("-d") /\ cpc = "done")
    /\ ~matched => (arg1 # Some("-d") /\ cpc \in {"removing", "done"})

C8_Witness ==
    /\ arg1 = Some("-d")
    /\ Len(pushes) = 2
    /\ mainState = "running"

\* C9: the status the listener works with is Closed for an absent value,
\* Paused, Playing, Stopped for exactly those strings, and for any other
\* string there is no status at all: main panics and that notification
\* yields no event.
C9_PlaybackClassification ==
    /\ \A i \in Taken :
         hist[i].status # "none" =>
           /\ hist[i].raw = None => hist[i].status = "Closed"
           /\ hist[i].raw = Some("Paused") => hist[i].status = "Paused"
           /\ hist[i].raw = Some("Playing") => hist[i].status = "Playing"
           /\ hist[i].raw = Some("Stopped") => hist[i].status = "Stopped"
           /\ hist[i].raw \notin {None, Some("Paused"), Some("Playing"),
                                  Some("Stopped")} =>
                /\ hist[i].status = "Unreachable"
                /\ mainState = "panicked"
                /\ hist[i].sent = 0
                /\ ~hist[i].done
    /\ cur.status \in {"Closed", "Paused", "Playing", "Stopped"}
    /\ \A k \in 1..Len(chan) :
         chan[k].status \in {"Closed", "Paused", "Playing", "Stopped"}

C9_Witness ==
    /\ \E i \in Taken : hist[i].raw = Some("Paused") /\ hist[i].sent = 1
    /\ \E i \in Taken : hist[i].raw = Some("playing")
                        /\ hist[i].status = "Unreachable"
    /\ exited

\* C10: parse_metadata gives "no metadata" exactly when title, album and
\* artist are all absent from the bag; otherwise it gives a record whose
\* absent fields are empty, whose artist list is joined with " & " and whose
\* single-string artist is that string.
C10_MetadataOnlyAbsentWhenAllAbsent ==
    ppc = "out" =>
      LET allAbsent == pin.title = None /\ pin.album = None
                       /\ pin.artist = None
          text(o) == IF o = None THEN "" ELSE Unwrap(o).s
          artist == IF pin.artist = None THEN ""
                    ELSE IF Unwrap(pin.artist).ty = "as"
                         THEN join(Unwrap(pin.artist).l, " & ")
                         ELSE Unwrap(pin.artist).s
      IN  IF allAbsent THEN pout = Err
          ELSE pout = Ok(MediaInfo(text(pin.title), artist, text(pin.album)))

\* C11: Activity::from gives an activity for every MediaInfo: the headline
\* is "Playing {artist} - {title}" whatever the album, and the subline is
\* absent exactly when the album is empty and "From {album}" otherwise.
C11_ActivityMapping ==
    /\ ppc = "mi" => ENABLED MapActivity
    /\ ppc = "activity" =>
         /\ pout.details = "Playing " \o pin.artist \o " - " \o pin.title
         /\ pout.state = None <=> pin.album = ""
         /\ pin.album # "" => pout.state = Some("From " \o pin.album)

C11_Witness ==
    /\ ppc = "activity"
    /\ pin = MediaInfo("title", "artist", "album")
    /\ pout = [state |-> Some("From album"),
               details |-> "Playing artist - title"]

\* C12: a notification with status Playing or Paused whose metadata query
\* failed, or whose reply parsed to "no metadata", has still put one event
\* on the channel when its handling is finished, carrying no metadata and
\* the classified status.
C12_EventWithoutMetadataOnQueryFailure ==
    \A i \in Taken :
      (hist[i].done /\ hist[i].status \in {"Playing", "Paused"}
         /\ hist[i].metaAsked /\ hist[i].md = Err) =>
        /\ hist[i].sent = 1
        /\ \/ \E k \in 1..Len(chan) : chan[k] = [id |-> hist[i].id,
                                                 status |-> hist[i].status,
                                                 md |-> None]
           \/ \E p \in Pushed : /\ pushes[p].ev.id = hist[i].id
                                /\ pushes[p].ev.md = None
                                /\ pushes[p].kind = "clear"

\* C13: every event the listener holds for sending, has queued or has had
\* pushed carries metadata only with status Playing or Paused, and then it
\* is the record parsed from that notification's Metadata reply; no Stopped
\* or Closed event carries metadata.
C13_MetadataOnlyWhenPlayingOrPaused ==
    LET Fine(ev) ==
          /\ IsSome(ev.md) =>
               /\ ev.status \in {"Playing", "Paused"}
               /\ HistOf(ev.id).metaAsked
               /\ HistOf(ev.id).md = Ok(Unwrap(ev.md))
          /\ ev.status \in {"Stopped", "Closed"} => ev.md = None
    IN  /\ lpc = "send" => Fine(cur)
        /\ \A k \in 1..Len(chan) : Fine(chan[k])
        /\ \A k \in Pushed : Fine(pushes[k].ev)

C13_Witness ==
    /\ \E k \in 1..Len(chan) : IsSome(chan[k].md) /\ chan[k].status = "Paused"
    /\ \E k \in 1..Len(chan) : chan[k].md = None /\ chan[k].status = "Stopped"

KnownStatus == {Some("Paused"), Some("Playing"), Some("Stopped")}

C15_UnknownStatusEndsProcess ==
    \A i \in Taken :
      (IsSome(hist[i].raw) /\ hist[i].raw \notin KnownStatus) =>
        /\ hist[i].status = "Unreachable"
        /\ hist[i].sent = 0
        /\ \A k \in 1..Len(chan) : chan[k].id # hist[i].id
        /\ \A k \in Pushed : pushes[k].ev.id # hist[i].id
        /\ mainState = "panicked"
        /\ exited \/ ENABLED RuntimeShutdown

\* C16: the channel never holds more than 25 events; while it is full the
\* listener's send cannot complete and the listener can neither take the
\* next notification nor make a query, until the actor takes an event (which
\* it can); the event waiting to be sent is kept, and every notification
\* handled has its one event queued or pushed.
C16_BoundedChannelBackpressure ==
    /\ Len(chan) <= ChannelCap
    /\ (lpc = "send" /\ Len(chan) = ChannelCap) =>
         /\ ~ENABLED ListenerSend
         /\ ~ENABLED ListenerTake
         /\ ~ENABLED ListenerStatus
         /\ ~ENABLED ListenerMeta
         /\ ENABLED ActorRecv
    /\ lpc = "send" => (cur.id = Last.id /\ ~Last.done /\ Last.sent = 0)
    /\ SumSent(Len(hist)) = Len(pushes) + Len(chan)
    /\ \A i \in Taken :
         hist[i].done =>
           /\ hist[i].sent = 1
           /\ \/ \E k \in 1..Len(chan) : chan[k].id = hist[i].id
              \/ \E p \in Pushed : pushes[p].ev.id = hist[i].id

C16_Witness ==
    /\ Len(chan) = ChannelCap
    /\ lpc = "send"
    /\ stream # <<>>

\* C17: the listener has at most one notification in hand: it takes the
\* next one only when idle and when the handling of the previous one is
\* finished; for the one in hand the status query comes first, the metadata
\* query is made only for Playing or Paused, and the send comes after the
\* queries it needs.
C17_OneNotificationAtATime ==
    /\ [][Len(hist') > Len(hist) =>
            /\ lpc = "idle" /\ lpc' = "status"
            /\ Len(hist) = 0 \/ Last.done]_vars
    /\ [](\A i \in Taken : ~hist[i].done => i = Len(hist))
    /\ [](lpc \in {"status", "meta", "send"} =>
            (~Last.done /\ cur.id = Last.id))
    /\ [](lpc = "status" => (Last.status = "none" /\ ~Last.metaAsked))
    /\ [](lpc = "meta" => (Last.status \in {"Playing", "Paused"}
                           /\ ~Last.metaAsked /\ Last.sent = 0))
    /\ [](\A i \in Taken :
            /\ hist[i].metaAsked => hist[i].status \in {"Playing", "Paused"}
            /\ hist[i].sent > 0 =>
                 /\ hist[i].sent = 1 /\ hist[i].done
                 /\ hist[i].status \in {"Playing", "Paused"}
                      => (hist[i].metaAsked /\ IsOk(hist[i].md))
                 /\ hist[i].status \notin {"Playing", "Paused"}
                      => hist[i].status \in {"Stopped", "Closed"})

C17_Witness ==
    /\ Len(hist) = 2
    /\ hist[1].done /\ hist[1].sent = 1 /\ hist[1].metaAsked
    /\ lpc = "meta"
    /\ stream = <<>>

\* C18: in console mode the console task, once it has read its line, calls
\* remove_match once and then drops the trigger, whatever remove_match
\* returned: the result is recorded once and never changes, the trigger is
\* dropped in the very step in which remove_match completes, also when it
\* failed, and after that the stream can end.
C18_UnsubscribeOnceThenStop ==
    /\ [][/\ (cpc = "reading" /\ cpc' # cpc) =>
               (cpc' = "removing" /\ ~matched' /\ unsub' = "none"
                /\ tripwire' = tripwire)
          /\ (cpc = "removing" /\ cpc' # cpc) =>
               (cpc' = "done" /\ unsub = "none"
                /\ unsub' \in {"ok", "failed"} /\ tripwire')
          /\ cpc = "done" => (cpc' = "done" /\ unsub' = unsub)
          /\ unsub' # unsub => cpc = "removing"
          /\ tripwire' # tripwire => (cpc = "removing" /\ tripwire')]_vars
    /\ [](cpc = "done" <=> tripwire)
    /\ [](cpc = "done" <=> unsub \in {"ok", "failed"})
    /\ []((tripwire /\ ~exited /\ mainState = "running" /\ lpc = "idle")
            => ENABLED StreamEnd)
    /\ [](cpc # "none" <=> ~IsDaemon(arg1))

C18_Witness ==
    /\ unsub = "failed"
    /\ tripwire
    /\ mainState = "returned"
    /\ ~connLost

\* C19: once the stream has ended (main has returned) the listener is done
\* for good: it takes no notification, makes no query and sends no event,
\* so the channel only shrinks; the sending side is closed, so the actor,
\* while the runtime lasts, takes each queued event and then, on the empty
\* channel, finds it closed; it never finds it closed before the last
\* queued event.
C19_DrainingIsTerminal ==
    /\ [][mainState = "returned" =>
            /\ mainState' = "returned"
            /\ UNCHANGED <<hist, lpc, cur, stream>>
            /\ chan' = chan \/ chan' = Tail(chan)]_vars
    /\ [](mainState = "returned" => (lpc = "idle" /\ cur = NoCur))
    /\ []((mainState = "returned" /\ ~exited /\ actor = "running") =>
            IF chan = <<>> THEN ENABLED ActorEnd ELSE ENABLED ActorRecv)
    /\ [](actor = "ended" => (chan = <<>> /\ mainState # "running"))
    /\ [](mainState = "running" => ~ENABLED ActorEnd)

C19_Witness ==
    /\ mainState = "returned"
    /\ actor = "ended"
    /\ Len(pushes) >= 1
    /\ stream # <<>>

\* C20: the tripwire is looked at only when the listener asks the stream for
\* the next notification. After the trigger is dropped no notification is
\* taken, so those still buffered yield no event; the one in hand goes on
\* (its next step stays enabled and the stream cannot end under it), and the
\* only event sent after the signal is the one that finishes it.
C20_CancellationBetweenNotifications ==
    /\ [][tripwire =>
            /\ Len(hist') = Len(hist)
            /\ stream' = stream
            /\ SumSent(Len(hist')) > SumSent(Len(hist)) =>
                 (~Last.done /\ hist'[Len(hist)].done
                  /\ SumSent(Len(hist')) = SumSent(Len(hist)) + 1)
            /\ lpc # "idle" => mainState' # "returned"]_vars
    /\ []((tripwire /\ ~exited /\ mainState = "running") =>
            /\ lpc = "status" => ENABLED ListenerStatus
            /\ lpc = "meta" => ENABLED ListenerMeta
            /\ lpc = "send" => ENABLED ListenerSend
            /\ ~ENABLED ListenerTake)

C20_Witness ==
    /\ tripwire
    /\ lpc = "send"
    /\ stream # <<>>

====
